---- MODULE Spec2Model ----
(***************************************************************************)
(* Two-tier TTL cache of num-verify (src/cache_manager.py, CacheManager).  *)
(* The memory tier is the dict _memory_cache, the durable tier is the set  *)
(* of "<sha256(key)>.cache" files under _cache_dir.  Python's Optional     *)
(* values are modelled as sequences: None is <<>>, a present value x is    *)
(* <<x>>.  Durations (timedelta) and the clock are whole seconds.          *)
(*                                                                         *)
(* Spec      : one caller, no durable-tier faults; every call is atomic.   *)
(* SpecFault : one caller; file reads, writes and deletes may fail and     *)
(*             records may be damaged (at most MaxFaults times).           *)
(***************************************************************************)
EXTENDS Integers, Sequences, FiniteSets, TLC

\* ---- bounds of the model ----
MaxTime   == 2      \* the clock runs from 0 to MaxTime
MaxDur    == 2      \* the longest ttl / max_age argument, in seconds
MaxFaults == 1      \* durable-tier faults injected in one behaviour of SpecFault

Keys      == {"a", "b"}
Payloads  == {"x1", "x2"}
None      == <<>>
Durations == {0, 1, MaxDur}
OptDurations == {None} \cup {<<d>> : d \in Durations}

\* the orders in which a directory listing can yield the files of the keys
Orders == {o \in [1..Cardinality(Keys) -> Keys] : \A i, j \in DOMAIN o : o[i] = o[j] => i = j}
AnyOrder == CHOOSE o \in Orders : TRUE
Before(order, k) == {order[i] : i \in {j \in DOMAIN order : \E m \in DOMAIN order : m > j /\ order[m] = k}}

\* an injected durable-tier fault: <<kind, key of the file it hits>>
NoFault == <<"none", "-">>

VARIABLES
    memory_cache,   \* self._memory_cache: key -> entry (a dict: partial function)
    cache_dir,      \* files of self._cache_dir: path -> file content
    now,            \* datetime.now()
    result,         \* return value of the last operation (None or <<payload>>)
    lastOp,         \* the last operation called and its arguments
    written,        \* history: key -> arguments and time of the latest set(key, ...)
                    \*          that no invalidate(key) or clear() has undone since
    ever_set,       \* history: the keys set(key, ...) was ever called for
    removed,        \* history: key -> operations that removed it since its last set
    nfaults,        \* number of durable-tier faults injected so far
    lock,           \* self._lock: None, or <<thread>> holding it
    frames          \* thread -> where it is in a call, and the call's locals

vars == <<memory_cache, cache_dir, now, result, lastOp, written, ever_set, removed,
          nfaults, lock, frames>>

\* ---- dict helpers ----
Put(f, k, v)  == [x \in (DOMAIN f) \cup {k} |-> IF x = k THEN v ELSE f[x]]
Remove(f, ks) == [x \in (DOMAIN f) \ ks |-> f[x]]

\* ---- conversions ----
\* datetime.isoformat() / datetime.fromisoformat()
isoformat(t)     == <<"iso", t>>
fromisoformat(s) == s[2]

\* timedelta.total_seconds()
total_seconds(d) == d

\* truthiness of an Optional[timedelta] / Optional[float]: None and zero are falsy
Truthy(opt) == opt # None /\ opt[1] # 0

\* json.dump of a cache entry: a string, null-or-number, and the payload object
json_dump(entry) ==
    [timestamp |-> <<"str", entry.timestamp>>,
     ttl       |-> IF entry.ttl = None THEN <<"null">> ELSE <<"num", entry.ttl[1]>>,
     data      |-> <<"obj", entry.data>>]

\* json.load of a cache file: every member the text has, decoded by its JSON type
json_value(v) ==
    IF v[1] = "null" THEN None ELSE IF v[1] = "num" THEN <<v[2]>> ELSE v[2]

json_load(text) == [f \in DOMAIN text |-> json_value(text[f])]

\* a file cut short while being written: not parseable as JSON
Truncated == [truncated |-> <<"str", "{">>]
parseable(text) == "truncated" \notin DOMAIN text

\* ---- CacheManager private methods ----
get_cache_file_path(key) == <<key, ".cache">>
key_of(cache_file) == cache_file[1]

\* variant: the stored ttl is enforced even when no max_age is passed
is_cache_valid_ttl_always(cache_entry, max_age, t) ==
    LET age == t - fromisoformat(cache_entry.timestamp) IN
    IF Truthy(cache_entry.ttl) THEN age < cache_entry.ttl[1]
    ELSE IF ~Truthy(max_age) THEN TRUE
    ELSE age < total_seconds(max_age[1])

is_cache_valid(cache_entry, max_age, t) ==
    IF ~Truthy(max_age) THEN TRUE
    ELSE LET age == t - fromisoformat(cache_entry.timestamp) IN
         IF Truthy(cache_entry.ttl) THEN age < cache_entry.ttl[1]
         ELSE age < total_seconds(max_age[1])

\* _is_cache_valid raises KeyError: the entry is inspected and has no "timestamp"
validity_raises(cache_entry, max_age) ==
    Truthy(max_age) /\ "timestamp" \notin DOMAIN cache_entry

\* _read_cache_file: the decoded record, or None (read_fails) when open or
\* json.load raises, which it catches itself
read_cache_file(cache_file) == json_load(cache_dir[cache_file])

read_fails(cache_file, fault) ==
    \/ fault = <<"read", key_of(cache_file)>>
    \/ ~parseable(cache_dir[cache_file])

\* variant: the file is created exclusively, an existing record is kept
write_cache_file_create_only(dir, cache_file, data, fault) ==
    IF fault[1] = "open" \/ cache_file \in DOMAIN dir THEN dir
    ELSE IF fault[1] = "dump" THEN Put(dir, cache_file, Truncated)
    ELSE Put(dir, cache_file, json_dump(data))

\* _write_cache_file: catches its own failure; a failed open leaves the file,
\* a failure while dumping leaves the file truncated by open('w')
write_cache_file(dir, cache_file, data, fault) ==
    IF fault[1] = "open" THEN dir
    ELSE IF fault[1] = "dump" THEN Put(dir, cache_file, Truncated)
    ELSE Put(dir, cache_file, json_dump(data))

\* the entry built by set()
cache_entry(t, data, ttl) ==
    [timestamp |-> isoformat(t),
     ttl       |-> IF Truthy(ttl) THEN <<total_seconds(ttl[1])>> ELSE None,
     data      |-> data]

\* variant: cleanup has no try / except around its two sweeps
Handled_all_but_cleanup(op) == op \in {"get", "set", "invalidate", "clear"}

\* the public operations whose body is wrapped in try / except Exception
Handled(op) == op \in {"get", "set", "invalidate", "clear", "cleanup"}

\* an exception raised inside op reaches the caller
Escapes(op, exc) == exc /\ ~Handled(op)

\* lastOp: op and its key/max_age arguments; imm: the call directly before was a
\* set of the same key; cold: the key was not in memory when the call began;
\* tier: where get found the value / whether set and invalidate found a file;
\* fault: the fault injected into the call; raised: an exception reached the caller;
\* data, ttl: the arguments of a set.
Call(op, key, max_age, imm, cold, tier, fault, raised, data, ttl) ==
    [op |-> op, key |-> key, max_age |-> max_age, imm |-> imm, cold |-> cold,
     tier |-> tier, fault |-> fault, raised |-> raised, data |-> data, ttl |-> ttl]

Op(op, key, max_age, imm, cold, tier) ==
    Call(op, key, max_age, imm, cold, tier, NoFault, FALSE, "-", None)

\* the threads sharing one CacheManager
Threads == {"t1", "t2"}

\* a thread's position (pc), the key of its call, the entry it carries (the
\* cache_entry of set, the cached_data of get), its max_age, and where the
\* exception it is handling was raised ("none", "locked", "disk")
Frame(pc, key, entry, max_age, exc) ==
    [pc |-> pc, key |-> key, entry |-> entry, max_age |-> max_age, exc |-> exc]

\* between calls / in the except block of a call
IdleFrame   == Frame("idle", "-", None, None, "none")
Except(exc) == Frame("except", "-", None, None, exc)

Init ==
    /\ memory_cache = <<>>
    /\ cache_dir = <<>>
    /\ now = 0
    /\ result = None
    /\ lastOp = Op("init", "-", None, FALSE, FALSE, "-")
    /\ written = <<>>
    /\ ever_set = {}
    /\ removed = [k \in Keys |-> {}]
    /\ nfaults = 0
    /\ lock = None
    /\ frames = [t \in Threads |-> IdleFrame]

\* ---- CacheManager.set(key, data, ttl) ----
\* variant: the memory entry is written only once the file was written
set_op_memory_after_disk(key, data, ttl, fault) ==
    LET entry == cache_entry(now, data, ttl) IN
    /\ memory_cache' = IF fault = NoFault THEN Put(memory_cache, key, entry)
                       ELSE memory_cache
    /\ cache_dir' = write_cache_file(cache_dir, get_cache_file_path(key), entry, fault)
    /\ result' = None
    /\ lastOp' = Call("set", key, None, FALSE, key \notin DOMAIN memory_cache,
                      IF get_cache_file_path(key) \in DOMAIN cache_dir
                      THEN "disk" ELSE "miss",
                      fault, Escapes("set", FALSE), data, ttl)
    /\ UNCHANGED now

set_op(key, data, ttl, fault) ==
    LET entry == cache_entry(now, data, ttl) IN
    /\ memory_cache' = Put(memory_cache, key, entry)
    /\ cache_dir' = write_cache_file(cache_dir, get_cache_file_path(key), entry, fault)
    /\ result' = None
    /\ lastOp' = Call("set", key, None, FALSE, key \notin DOMAIN memory_cache,
                      IF get_cache_file_path(key) \in DOMAIN cache_dir
                      THEN "disk" ELSE "miss",
                      fault, Escapes("set", FALSE), data, ttl)
    /\ UNCHANGED now

set_history(key, data, ttl) ==
    /\ written' = Put(written, key, [data |-> data, ttl |-> ttl, at |-> now])
    /\ ever_set' = ever_set \cup {key}
    /\ removed' = [removed EXCEPT ![key] = {}]

\* variant: set persists the entry but leaves the memory tier as it was
set_stale_memory(key, data, ttl) ==
    LET entry == cache_entry(now, data, ttl) IN
    /\ cache_dir' = write_cache_file(cache_dir, get_cache_file_path(key), entry, NoFault)
    /\ result' = None
    /\ lastOp' = Call("set", key, None, FALSE, key \notin DOMAIN memory_cache,
                      IF get_cache_file_path(key) \in DOMAIN cache_dir
                      THEN "disk" ELSE "miss", NoFault, FALSE, data, ttl)
    /\ written' = Put(written, key, [data |-> data, ttl |-> ttl, at |-> now])
    /\ ever_set' = ever_set \cup {key}
    /\ removed' = [removed EXCEPT ![key] = {}]
    /\ UNCHANGED <<now, memory_cache, nfaults, lock, frames>>

set(key, data, ttl) ==
    /\ set_op(key, data, ttl, NoFault)
    /\ set_history(key, data, ttl)
    /\ UNCHANGED <<nfaults, lock, frames>>

\* ---- CacheManager.get(key, max_age) ----
memory_hit(key, max_age) ==
    /\ key \in DOMAIN memory_cache
    /\ is_cache_valid(memory_cache[key], max_age, now)

disk_hit(key, max_age) ==
    /\ get_cache_file_path(key) \in DOMAIN cache_dir
    /\ is_cache_valid(read_cache_file(get_cache_file_path(key)), max_age, now)

\* variant: the durable record is consulted before the memory entry
get_tier_disk_first(key, max_age, fault) ==
    LET cache_file == get_cache_file_path(key)
        readable == cache_file \in DOMAIN cache_dir /\ ~read_fails(cache_file, fault)
    IN
    IF readable /\ validity_raises(read_cache_file(cache_file), max_age) THEN "error"
    ELSE IF readable /\ disk_hit(key, max_age) THEN "disk"
    ELSE IF key \in DOMAIN memory_cache /\ validity_raises(memory_cache[key], max_age)
    THEN "error"
    ELSE IF memory_hit(key, max_age) THEN "memory"
    ELSE "miss"

\* how a get ends: "memory" / "disk" hit, "miss", or "error" when the validity
\* check raises (in the locked memory lookup or on the record read from disk)
get_tier(key, max_age, fault) ==
    LET cache_file == get_cache_file_path(key) IN
    IF key \in DOMAIN memory_cache /\ validity_raises(memory_cache[key], max_age)
    THEN "error"
    ELSE IF memory_hit(key, max_age) THEN "memory"
    ELSE IF cache_file \notin DOMAIN cache_dir THEN "miss"
    ELSE IF read_fails(cache_file, fault) THEN "miss"
    ELSE IF validity_raises(read_cache_file(cache_file), max_age) THEN "error"
    ELSE IF disk_hit(key, max_age) THEN "disk"
    ELSE "miss"

\* variant: a promoted entry is stamped with the time of the promotion
get_op_restamps(key, max_age, fault) ==
    LET imm  == lastOp.op = "set" /\ lastOp.key = key
        cold == key \notin DOMAIN memory_cache
        cached_data == read_cache_file(get_cache_file_path(key))
    IN
    \E tier \in {get_tier(key, max_age, fault)} :
        /\ memory_cache' = IF tier = "disk"
                           THEN Put(memory_cache, key,
                                    [cached_data EXCEPT !.timestamp = isoformat(now)])
                           ELSE memory_cache
        /\ result' = IF tier = "memory" THEN <<memory_cache[key].data>>
                     ELSE IF tier = "disk" THEN <<cached_data.data>>
                     ELSE None
        /\ lastOp' = Call("get", key, max_age, imm, cold, tier, fault,
                          Escapes("get", tier = "error"), "-", None)
        /\ UNCHANGED <<cache_dir, now>>

\* variant: a memory entry found invalid is evicted
get_op_evicts_expired(key, max_age, fault) ==
    LET imm  == lastOp.op = "set" /\ lastOp.key = key
        cold == key \notin DOMAIN memory_cache
        cached_data == read_cache_file(get_cache_file_path(key))
    IN
    \E tier \in {get_tier(key, max_age, fault)} :
        /\ memory_cache' = IF tier = "disk" THEN Put(memory_cache, key, cached_data)
                           ELSE IF tier = "miss" THEN Remove(memory_cache, {key})
                           ELSE memory_cache
        /\ result' = IF tier = "memory" THEN <<memory_cache[key].data>>
                     ELSE IF tier = "disk" THEN <<cached_data.data>>
                     ELSE None
        /\ lastOp' = Call("get", key, max_age, imm, cold, tier, fault,
                          Escapes("get", tier = "error"), "-", None)
        /\ UNCHANGED <<cache_dir, now>>

get_op(key, max_age, fault) ==
    LET imm  == lastOp.op = "set" /\ lastOp.key = key
        cold == key \notin DOMAIN memory_cache
        cached_data == read_cache_file(get_cache_file_path(key))
    IN
    \E tier \in {get_tier(key, max_age, fault)} :
        /\ memory_cache' = IF tier = "disk" THEN Put(memory_cache, key, cached_data)
                           ELSE memory_cache
        /\ result' = IF tier = "memory" THEN <<memory_cache[key].data>>
                     ELSE IF tier = "disk" THEN <<cached_data.data>>
                     ELSE None
        /\ lastOp' = Call("get", key, max_age, imm, cold, tier, fault,
                          Escapes("get", tier = "error"), "-", None)
        /\ UNCHANGED <<cache_dir, now>>

\* variant: a durable hit is returned without being copied into memory
get_no_promote(key, max_age) ==
    LET imm  == lastOp.op = "set" /\ lastOp.key = key
        cold == key \notin DOMAIN memory_cache
    IN
    /\ IF memory_hit(key, max_age)
         THEN /\ result' = <<memory_cache[key].data>>
              /\ lastOp' = Op("get", key, max_age, imm, cold, "memory")
         ELSE IF disk_hit(key, max_age)
         THEN /\ result' = <<read_cache_file(get_cache_file_path(key)).data>>
              /\ lastOp' = Op("get", key, max_age, imm, cold, "disk")
         ELSE /\ result' = None
              /\ lastOp' = Op("get", key, max_age, imm, cold, "miss")
    /\ UNCHANGED <<memory_cache, cache_dir, now, written, ever_set, removed, nfaults, lock, frames>>

get(key, max_age) ==
    /\ get_op(key, max_age, NoFault)
    /\ UNCHANGED <<written, ever_set, removed, nfaults, lock, frames>>

\* ---- CacheManager.invalidate(key) ----
\* variant: invalidate empties the whole memory tier
invalidate_op_whole_memory(key, fault) ==
    LET cache_file == get_cache_file_path(key)
        unlink_raises == cache_file \in DOMAIN cache_dir /\ fault = <<"unlink", key>>
    IN
    /\ memory_cache' = <<>>
    /\ cache_dir' = IF unlink_raises THEN cache_dir ELSE Remove(cache_dir, {cache_file})
    /\ result' = None
    /\ lastOp' = Call("invalidate", key, None, FALSE, key \notin DOMAIN memory_cache,
                      IF cache_file \in DOMAIN cache_dir THEN "disk" ELSE "miss",
                      fault, Escapes("invalidate", unlink_raises), "-", None)
    /\ UNCHANGED now

invalidate_op(key, fault) ==
    LET cache_file == get_cache_file_path(key)
        unlink_raises == cache_file \in DOMAIN cache_dir /\ fault = <<"unlink", key>>
    IN
    /\ memory_cache' = Remove(memory_cache, {key})
    /\ cache_dir' = IF unlink_raises THEN cache_dir ELSE Remove(cache_dir, {cache_file})
    /\ result' = None
    /\ lastOp' = Call("invalidate", key, None, FALSE, key \notin DOMAIN memory_cache,
                      IF cache_file \in DOMAIN cache_dir THEN "disk" ELSE "miss",
                      fault, Escapes("invalidate", unlink_raises), "-", None)
    /\ UNCHANGED now

invalidate_history(key) ==
    /\ written' = Remove(written, {key})
    /\ removed' = [removed EXCEPT ![key] = @ \cup {"invalidate"}]
    /\ UNCHANGED ever_set

\* variant: invalidate drops the memory entry and leaves the file
invalidate_memory_only(key) ==
    /\ memory_cache' = Remove(memory_cache, {key})
    /\ result' = None
    /\ lastOp' = Op("invalidate", key, None, FALSE, key \notin DOMAIN memory_cache,
                     IF get_cache_file_path(key) \in DOMAIN cache_dir
                     THEN "disk" ELSE "miss")
    /\ written' = Remove(written, {key})
    /\ removed' = [removed EXCEPT ![key] = @ \cup {"invalidate"}]
    /\ UNCHANGED <<cache_dir, now, ever_set, nfaults, lock, frames>>

invalidate(key) ==
    /\ invalidate_op(key, NoFault)
    /\ invalidate_history(key)
    /\ UNCHANGED <<nfaults, lock, frames>>

\* ---- CacheManager.clear() ----
\* the files are unlinked in directory order; a failing unlink ends the loop
clear_op(fault, order) ==
    LET unlink_raises == fault[1] = "unlink"
                         /\ get_cache_file_path(fault[2]) \in DOMAIN cache_dir
        unlinked == IF unlink_raises
                    THEN {get_cache_file_path(k) : k \in Before(order, fault[2])}
                    ELSE DOMAIN cache_dir
    IN
    /\ memory_cache' = <<>>
    /\ cache_dir' = Remove(cache_dir, unlinked)
    /\ result' = None
    /\ lastOp' = Call("clear", "-", None, FALSE, FALSE, "-", fault,
                      Escapes("clear", unlink_raises), "-", None)
    /\ UNCHANGED now

clear_history ==
    /\ written' = <<>>
    /\ removed' = [k \in Keys |-> removed[k] \cup {"clear"}]
    /\ UNCHANGED ever_set

\* variant: clear empties the memory tier and leaves the files
clear_memory_only ==
    /\ memory_cache' = <<>>
    /\ result' = None
    /\ lastOp' = Op("clear", "-", None, FALSE, FALSE, "-")
    /\ written' = <<>>
    /\ removed' = [k \in Keys |-> removed[k] \cup {"clear"}]
    /\ UNCHANGED <<cache_dir, now, ever_set, nfaults, lock, frames>>

clear ==
    /\ clear_op(NoFault, AnyOrder)
    /\ clear_history
    /\ UNCHANGED <<nfaults, lock, frames>>

\* ---- CacheManager.cleanup(max_age) ----
\* variant: without max_age the memory sweep applies an age of one second
expired_keys_default_age(max_age) ==
    {k \in DOMAIN memory_cache :
        ~is_cache_valid(memory_cache[k], IF max_age = None THEN <<1>> ELSE max_age, now)}

\* the memory entries the sweep checks without an exception and finds invalid
expired_keys(max_age) ==
    {k \in DOMAIN memory_cache :
        /\ ~validity_raises(memory_cache[k], max_age)
        /\ ~is_cache_valid(memory_cache[k], max_age, now)}

\* the records the disk sweep reads (a record _read_cache_file returns None for
\* is skipped) and finds invalid
expired_files(max_age, fault) ==
    {f \in DOMAIN cache_dir :
        /\ ~read_fails(f, fault)
        /\ ~validity_raises(read_cache_file(f), max_age)
        /\ ~is_cache_valid(read_cache_file(f), max_age, now)}

\* keys whose memory entry makes the validity check raise: the sweep ends there
raising_keys(max_age) ==
    {k \in DOMAIN memory_cache : validity_raises(memory_cache[k], max_age)}

\* keys whose file ends the disk sweep: the validity check or the unlink raises
raising_files(max_age, fault) ==
    {k \in Keys :
        LET f == get_cache_file_path(k) IN
        /\ f \in DOMAIN cache_dir
        /\ ~read_fails(f, fault)
        /\ \/ validity_raises(read_cache_file(f), max_age)
           \/ /\ fault = <<"unlink", k>>
              /\ ~is_cache_valid(read_cache_file(f), max_age, now)}

\* the keys a loop over `order` visits before the first key of `stops`
Visited(order, stops) ==
    IF stops = {} THEN Keys ELSE
    {k \in Keys : \A s \in stops : k \in Before(order, s)}

\* the memory sweep runs in dict order, then the disk sweep in directory order;
\* an exception in either ends the whole call.  The disk sweep runs only when
\* the memory sweep did not raise, so one `order` stands for whichever sweep
\* is cut short.
cleanup_op(max_age, fault, order) ==
    \E mem_stops \in {raising_keys(max_age)} :
    \E dir_stops \in {IF mem_stops # {} THEN {} ELSE raising_files(max_age, fault)} :
    \E swept_keys \in {expired_keys(max_age) \cap Visited(order, mem_stops)} :
    \E swept_files \in {IF mem_stops # {} THEN {}
                        ELSE {f \in expired_files(max_age, fault) :
                                key_of(f) \in Visited(order, dir_stops)}} :
        /\ memory_cache' = Remove(memory_cache, swept_keys)
        /\ cache_dir' = Remove(cache_dir, swept_files)
        /\ result' = None
        /\ lastOp' = Call("cleanup", "-", max_age, FALSE, FALSE, "-", fault,
                          Escapes("cleanup", mem_stops # {} \/ dir_stops # {}),
                          "-", None)
        /\ UNCHANGED now

\* the keys the call removed from a tier
cleanup_history ==
    /\ removed' = [k \in Keys |->
                     IF \/ k \in (DOMAIN memory_cache) \ DOMAIN memory_cache'
                        \/ get_cache_file_path(k) \in (DOMAIN cache_dir) \ DOMAIN cache_dir'
                     THEN removed[k] \cup {"cleanup"} ELSE removed[k]]
    /\ UNCHANGED <<written, ever_set>>

cleanup(max_age) ==
    /\ cleanup_op(max_age, NoFault, AnyOrder)
    /\ cleanup_history
    /\ UNCHANGED <<nfaults, lock, frames>>

\* CacheManager.__init__ over the same directory: a restart of the process
restart ==
    /\ memory_cache' = <<>>
    /\ result' = None
    /\ lastOp' = Op("init", "-", None, FALSE, FALSE, "-")
    /\ UNCHANGED <<cache_dir, now, written, ever_set, removed, nfaults, lock, frames>>

\* the clock advances between calls
sleep ==
    /\ now < MaxTime
    /\ now' = now + 1
    /\ result' = None
    /\ lastOp' = Op("sleep", "-", None, FALSE, FALSE, "-")
    /\ UNCHANGED <<memory_cache, cache_dir, written, ever_set, removed, nfaults, lock, frames>>

Next ==
    \/ \E k \in Keys, v \in Payloads, ttl \in OptDurations : set(k, v, ttl)
    \/ \E k \in Keys, max_age \in OptDurations : get(k, max_age)
    \/ \E k \in Keys : invalidate(k)
    \/ clear
    \/ \E max_age \in OptDurations : cleanup(max_age)
    \/ restart
    \/ sleep

Spec == Init /\ [][Next]_vars

TypeOK ==
    /\ DOMAIN memory_cache \subseteq Keys
    /\ now \in 0..MaxTime
    /\ result \in {None} \cup {<<v>> : v \in Payloads}

\* ---- durable-tier faults ----
\* a fault is injected into a call while the budget lasts; the call history of
\* Spec is not kept
Inject(fault) ==
    /\ fault # NoFault => nfaults < MaxFaults
    /\ nfaults' = IF fault = NoFault THEN nfaults ELSE nfaults + 1
    /\ UNCHANGED <<written, ever_set, removed, lock, frames>>

\* a record is damaged behind the cache's back: cut short (not JSON any more) or
\* rewritten without its "timestamp" member (JSON, but incomplete)
damaged(text, how) ==
    IF how = "truncate" THEN Truncated
    ELSE [f \in (DOMAIN text) \ {"timestamp"} |-> text[f]]

corrupt(key, how) ==
    /\ nfaults < MaxFaults
    /\ get_cache_file_path(key) \in DOMAIN cache_dir
    /\ damaged(cache_dir[get_cache_file_path(key)], how)
         # cache_dir[get_cache_file_path(key)]
    /\ cache_dir' = [cache_dir EXCEPT ![get_cache_file_path(key)] = damaged(@, how)]
    /\ nfaults' = nfaults + 1
    /\ result' = None
    /\ lastOp' = Op("corrupt", key, None, FALSE, FALSE, how)
    /\ UNCHANGED <<memory_cache, now, written, ever_set, removed, lock, frames>>

\* the arguments the calls of SpecFault draw from: faults and damage hit the
\* file of key "a"; key "b" is the other record of the directory
FaultTtls(key)     == IF key = "a" THEN {None, <<1>>} ELSE {<<1>>}
FaultPayloads(key) == IF key = "a" THEN Payloads ELSE {"x1"}
FaultAges          == {None, <<MaxDur>>}
FaultsOf(kinds, key) ==
    {NoFault} \cup {<<kind, key>> : kind \in IF key = "a" THEN kinds ELSE {}}

set_faulty(key, data, ttl, fault) == set_op(key, data, ttl, fault) /\ Inject(fault)
get_faulty(key, max_age, fault)   == get_op(key, max_age, fault) /\ Inject(fault)
invalidate_faulty(key, fault)     == invalidate_op(key, fault) /\ Inject(fault)
clear_faulty(fault, order)        == clear_op(fault, order) /\ Inject(fault)
cleanup_faulty(max_age, fault, order) ==
    cleanup_op(max_age, fault, order) /\ Inject(fault)

NextFault ==
    \/ \E k \in Keys : \E ttl \in FaultTtls(k), v \in FaultPayloads(k) :
         \E fault \in FaultsOf({"open", "dump"}, k) : set_faulty(k, v, ttl, fault)
    \/ \E k \in Keys, max_age \in FaultAges :
         \E fault \in FaultsOf({"read"}, k) : get_faulty(k, max_age, fault)
    \/ \E k \in Keys :
         \E fault \in FaultsOf({"unlink"}, k) : invalidate_faulty(k, fault)
    \/ \E order \in Orders :
         \E fault \in FaultsOf({"unlink"}, "a") : clear_faulty(fault, order)
    \/ \E max_age \in FaultAges, order \in Orders :
         \E fault \in FaultsOf({"read", "unlink"}, "a") :
            cleanup_faulty(max_age, fault, order)
    \/ \E how \in {"truncate", "strip"} : corrupt("a", how)
    \/ restart
    \/ sleep

SpecFault == Init /\ [][NextFault]_vars

\* ---- several threads calling one CacheManager ----
\* A call is cut where another thread can run in between: taking the lock, the
\* locked block (which ends by releasing it, also when it raises: `with`), and
\* the file operations after it.  The loops over the directory are one step.
Goto(t, frame) == frames' = [frames EXCEPT ![t] = frame]
At(t, pc)      == frames[t].pc = pc
Acquire(t)     == lock = None /\ lock' = <<t>>
Release(t)     == lock = <<t>> /\ lock' = None
Unobserved     == UNCHANGED <<now, result, lastOp, written, ever_set, nfaults>>
Sequential     == Unobserved /\ UNCHANGED removed

\* set: lines 72-76 build the entry, 79 takes the lock
set_begin(t, key, data, ttl) ==
    /\ At(t, "idle") /\ Acquire(t)
    /\ Goto(t, Frame("set_memory", key, <<cache_entry(now, data, ttl)>>, None, "none"))
    /\ removed' = [removed EXCEPT ![key] = {}]
    /\ UNCHANGED <<memory_cache, cache_dir>> /\ Unobserved

\* line 80
set_memory(t) ==
    /\ At(t, "set_memory") /\ Release(t)
    /\ memory_cache' = Put(memory_cache, frames[t].key, frames[t].entry[1])
    /\ Goto(t, [frames[t] EXCEPT !.pc = "set_disk"])
    /\ UNCHANGED cache_dir /\ Sequential

\* lines 83-84; a set that writes its file after an invalidate of the key
\* began counts as a set since that invalidate
set_disk(t) ==
    /\ At(t, "set_disk")
    /\ cache_dir' = write_cache_file(cache_dir, get_cache_file_path(frames[t].key),
                                     frames[t].entry[1], NoFault)
    /\ Goto(t, IdleFrame)
    /\ removed' = [removed EXCEPT ![frames[t].key] = {}]
    /\ UNCHANGED <<memory_cache, lock>> /\ Unobserved

\* get: line 39 takes the lock
get_begin(t, key, max_age) ==
    /\ At(t, "idle") /\ Acquire(t)
    /\ Goto(t, Frame("get_memory", key, None, max_age, "none"))
    /\ UNCHANGED <<memory_cache, cache_dir>> /\ Sequential

\* variant: the lock is taken and released by hand, and not released when the
\* validity check raises
get_memory_leaks_lock(t) ==
    LET key == frames[t].key
        max_age == frames[t].max_age
        raises == key \in DOMAIN memory_cache
                  /\ validity_raises(memory_cache[key], max_age)
    IN
    /\ At(t, "get_memory") /\ lock = <<t>>
    /\ lock' = IF raises THEN lock ELSE None
    /\ Goto(t, IF raises THEN Except("locked")
               ELSE IF memory_hit(key, max_age) THEN IdleFrame
               ELSE [frames[t] EXCEPT !.pc = "get_disk"])
    /\ UNCHANGED <<memory_cache, cache_dir>> /\ Sequential

\* lines 40-44: the locked lookup
get_memory(t) ==
    LET key == frames[t].key
        max_age == frames[t].max_age
        raises == key \in DOMAIN memory_cache
                  /\ validity_raises(memory_cache[key], max_age)
    IN
    /\ At(t, "get_memory") /\ Release(t)
    /\ Goto(t, IF raises THEN Except("locked")
               ELSE IF memory_hit(key, max_age) THEN IdleFrame
               ELSE [frames[t] EXCEPT !.pc = "get_disk"])
    /\ UNCHANGED <<memory_cache, cache_dir>> /\ Sequential

\* lines 47-50
get_disk(t) ==
    LET key == frames[t].key
        max_age == frames[t].max_age
        cache_file == get_cache_file_path(key)
    IN
    /\ At(t, "get_disk")
    /\ Goto(t, IF cache_file \notin DOMAIN cache_dir \/ read_fails(cache_file, NoFault)
               THEN IdleFrame
               ELSE IF validity_raises(read_cache_file(cache_file), max_age)
               THEN Except("disk")
               ELSE IF is_cache_valid(read_cache_file(cache_file), max_age, now)
               THEN Frame("get_relock", key, <<read_cache_file(cache_file)>>,
                          max_age, "none")
               ELSE IdleFrame)
    /\ UNCHANGED <<memory_cache, cache_dir, lock>> /\ Sequential

\* line 52
get_relock(t) ==
    /\ At(t, "get_relock") /\ Acquire(t)
    /\ Goto(t, [frames[t] EXCEPT !.pc = "get_promote"])
    /\ UNCHANGED <<memory_cache, cache_dir>> /\ Sequential

\* line 53
get_promote(t) ==
    /\ At(t, "get_promote") /\ Release(t)
    /\ memory_cache' = Put(memory_cache, frames[t].key, frames[t].entry[1])
    /\ Goto(t, IdleFrame)
    /\ UNCHANGED cache_dir /\ Sequential

\* invalidate: line 95 takes the lock
invalidate_begin(t, key) ==
    /\ At(t, "idle") /\ Acquire(t)
    /\ Goto(t, Frame("invalidate_memory", key, None, None, "none"))
    /\ removed' = [removed EXCEPT ![key] = @ \cup {"invalidate"}]
    /\ UNCHANGED <<memory_cache, cache_dir>> /\ Unobserved

\* lines 96-97
invalidate_memory(t) ==
    /\ At(t, "invalidate_memory") /\ Release(t)
    /\ memory_cache' = Remove(memory_cache, {frames[t].key})
    /\ Goto(t, [frames[t] EXCEPT !.pc = "invalidate_disk"])
    /\ UNCHANGED cache_dir /\ Sequential

\* lines 100-102
invalidate_disk(t) ==
    /\ At(t, "invalidate_disk")
    /\ cache_dir' = Remove(cache_dir, {get_cache_file_path(frames[t].key)})
    /\ Goto(t, IdleFrame)
    /\ UNCHANGED <<memory_cache, lock>> /\ Sequential

\* clear: line 112 takes the lock
clear_begin(t) ==
    /\ At(t, "idle") /\ Acquire(t)
    /\ Goto(t, Frame("clear_memory", "-", None, None, "none"))
    /\ UNCHANGED <<memory_cache, cache_dir>> /\ Sequential

\* line 113
clear_memory(t) ==
    /\ At(t, "clear_memory") /\ Release(t)
    /\ memory_cache' = <<>>
    /\ Goto(t, [frames[t] EXCEPT !.pc = "clear_disk"])
    /\ UNCHANGED cache_dir /\ Sequential

\* lines 116-117
clear_disk(t) ==
    /\ At(t, "clear_disk")
    /\ cache_dir' = <<>>
    /\ Goto(t, IdleFrame)
    /\ UNCHANGED <<memory_cache, lock>> /\ Sequential

\* cleanup: line 163 takes the lock
cleanup_begin(t, max_age) ==
    /\ At(t, "idle") /\ Acquire(t)
    /\ Goto(t, Frame("cleanup_memory", "-", None, max_age, "none"))
    /\ UNCHANGED <<memory_cache, cache_dir>> /\ Sequential

\* lines 164-166: the locked sweep, ended by the first entry that raises
cleanup_memory(t, order) ==
    LET max_age == frames[t].max_age
        stops == raising_keys(max_age)
    IN
    /\ At(t, "cleanup_memory") /\ Release(t)
    /\ memory_cache' = Remove(memory_cache,
                              expired_keys(max_age) \cap Visited(order, stops))
    /\ Goto(t, IF stops # {} THEN Except("locked")
               ELSE [frames[t] EXCEPT !.pc = "cleanup_disk"])
    /\ UNCHANGED cache_dir /\ Sequential

\* lines 169-172
cleanup_disk(t, order) ==
    LET max_age == frames[t].max_age
        stops == raising_files(max_age, NoFault)
    IN
    /\ At(t, "cleanup_disk")
    /\ cache_dir' = Remove(cache_dir,
                           {f \in expired_files(max_age, NoFault) :
                               key_of(f) \in Visited(order, stops)})
    /\ Goto(t, IF stops # {} THEN Except("disk") ELSE IdleFrame)
    /\ UNCHANGED <<memory_cache, lock>> /\ Sequential

\* the except block of get (lines 58-60) and cleanup (lines 176-177)
except(t) ==
    /\ At(t, "except")
    /\ Goto(t, IdleFrame)
    /\ UNCHANGED <<memory_cache, cache_dir, lock>> /\ Sequential

\* the clock advances while the threads run
tick ==
    /\ now < MaxTime
    /\ now' = now + 1
    /\ UNCHANGED <<memory_cache, cache_dir, result, lastOp, written, ever_set,
                   removed, nfaults, lock, frames>>

\* the arguments the calls of SpecConc draw from: the threads race on one key
ConcKeys == {"a"}
ConcTtls == {None, <<1>>}
ConcAges == {None, <<MaxDur>>}

NextConc ==
    \/ \E t \in Threads, k \in ConcKeys, v \in Payloads, ttl \in ConcTtls :
         set_begin(t, k, v, ttl)
    \/ \E t \in Threads : set_memory(t)
    \/ \E t \in Threads : set_disk(t)
    \/ \E t \in Threads, k \in ConcKeys, max_age \in ConcAges : get_begin(t, k, max_age)
    \/ \E t \in Threads : get_memory(t)
    \/ \E t \in Threads : get_disk(t)
    \/ \E t \in Threads : get_relock(t)
    \/ \E t \in Threads : get_promote(t)
    \/ \E t \in Threads, k \in ConcKeys : invalidate_begin(t, k)
    \/ \E t \in Threads : invalidate_memory(t)
    \/ \E t \in Threads : invalidate_disk(t)
    \/ \E t \in Threads : clear_begin(t)
    \/ \E t \in Threads : clear_memory(t)
    \/ \E t \in Threads : clear_disk(t)
    \/ \E t \in Threads, max_age \in ConcAges : cleanup_begin(t, max_age)
    \/ \E t \in Threads, order \in Orders : cleanup_memory(t, order)
    \/ \E t \in Threads, order \in Orders : cleanup_disk(t, order)
    \/ \E t \in Threads : except(t)
    \/ corrupt("a", "strip")
    \/ tick

SpecConc == Init /\ [][NextConc]_vars

\* ---- history helpers used by the properties ----
IsGet       == lastOp.op = "get"
Alive(k)    == k \in DOMAIN written /\ removed[k] = {}
Age(k)      == now - written[k].at
Stored(k)   == <<written[k].data>>
EntryOf(k)  == cache_entry(written[k].at, written[k].data, written[k].ttl)

\* C1: a get(k) without max_age directly after set(k, v) returns v.
C1_SetThenGet ==
    (IsGet /\ lastOp.imm /\ lastOp.max_age = None) => result = Stored(lastOp.key)

C1_Witness ==
    /\ IsGet /\ lastOp.imm /\ lastOp.max_age = None
    /\ result = <<"x2">>

\* C2: after set(k, v, ttl=T), get(k, max_age=M) returns v while the elapsed time
\* is < T and absent once it is >= T, for every M passed.
C2_StoredTtlDecides ==
    (IsGet /\ lastOp.max_age # None /\ Alive(lastOp.key)
        /\ written[lastOp.key].ttl # None)
    => result = IF Age(lastOp.key) < written[lastOp.key].ttl[1]
                THEN Stored(lastOp.key) ELSE None

\* C3: after set(k, v) without ttl, get(k, max_age=M) returns v while the elapsed
\* time is < M and absent once it is >= M.
C3_MaxAgeDecides ==
    (IsGet /\ lastOp.max_age # None /\ Alive(lastOp.key)
        /\ written[lastOp.key].ttl = None)
    => result = IF Age(lastOp.key) < lastOp.max_age[1]
                THEN Stored(lastOp.key) ELSE None

\* C4: after set(k, v, ttl=T) an immediate get(k) returns v; once more than T has
\* elapsed get(k) without max_age returns absent, and after a cleanup() without
\* max_age the durable record of k is gone.  (Stated for T > 0, as in the
\* scenario's ttl of 2 s.)
C4_TtlExpiryScenario ==
    /\ (IsGet /\ lastOp.imm /\ lastOp.max_age = None
           /\ Truthy(written[lastOp.key].ttl))
       => result = Stored(lastOp.key)
    /\ (IsGet /\ lastOp.max_age = None /\ Alive(lastOp.key)
           /\ Truthy(written[lastOp.key].ttl)
           /\ Age(lastOp.key) > written[lastOp.key].ttl[1])
       => result = None
    /\ (lastOp.op = "cleanup" /\ lastOp.max_age = None)
       => \A k \in DOMAIN written :
            (Truthy(written[k].ttl) /\ Age(k) > written[k].ttl[1])
            => get_cache_file_path(k) \notin DOMAIN cache_dir

C7_ClearEmptiesBothTiers ==
    /\ (IsGet /\ "clear" \in removed[lastOp.key]) => result = None
    /\ lastOp.op = "clear" => (DOMAIN cache_dir = {} /\ DOMAIN memory_cache = {})

C7_Witness ==
    /\ IsGet /\ lastOp.key \in ever_set
    /\ removed[lastOp.key] = {"clear"}
    /\ result = None

\* C8: a get(k) that finds memory without k (as after a restart) while the
\* durable record of k exists and is still valid returns the value originally
\* set and leaves the entry of k in the memory tier.
C8_RestartPromotes ==
    (IsGet /\ lastOp.cold
        /\ get_cache_file_path(lastOp.key) \in DOMAIN cache_dir
        /\ is_cache_valid(read_cache_file(get_cache_file_path(lastOp.key)),
                          lastOp.max_age, now))
    => /\ lastOp.key \in DOMAIN written
       /\ result = Stored(lastOp.key)
       /\ lastOp.key \in DOMAIN memory_cache
       /\ memory_cache[lastOp.key] = EntryOf(lastOp.key)

C8_Witness ==
    /\ IsGet /\ lastOp.cold /\ lastOp.tier = "disk"
    /\ lastOp.max_age = <<2>>
    /\ written[lastOp.key].ttl = <<2>>
    /\ Age(lastOp.key) = 1
    /\ result = Stored(lastOp.key)
    /\ memory_cache[lastOp.key] = EntryOf(lastOp.key)

\* the precedence rule as the specification words it
RuleExpired(entry, max_age, t) ==
    LET age == t - fromisoformat(entry.timestamp) IN
    IF entry.ttl # None THEN age >= entry.ttl[1] ELSE age >= max_age[1]

\* C9: cleanup(max_age=M) removes from both tiers exactly the entries invalid
\* under the precedence rule (age >= stored ttl, else age >= M) and leaves every
\* other entry unchanged.
C9_CleanupRemovesExactlyExpired ==
    [][(lastOp'.op = "cleanup" /\ lastOp'.max_age # None)
       => /\ memory_cache' = Remove(memory_cache,
                {k \in DOMAIN memory_cache :
                    RuleExpired(memory_cache[k], lastOp'.max_age, now)})
          /\ cache_dir' = Remove(cache_dir,
                {f \in DOMAIN cache_dir :
                    RuleExpired(read_cache_file(f), lastOp'.max_age, now)})]_vars

\* the three-branch reference rule, on the ttl the entry was set with
ReferenceValid(ttl, age, max_age) ==
    IF max_age = None THEN TRUE
    ELSE IF ttl # None THEN age < ttl[1]
    ELSE age < max_age[1]

\* C10: the validity predicate equals the three-branch reference rule for every
\* entry and every max_age over bounded durations, zero included.
C10_ValidityEqualsReference ==
    \A k \in DOMAIN written : \A max_age \in OptDurations :
        Alive(k)
        => /\ get_cache_file_path(k) \in DOMAIN cache_dir
           /\ is_cache_valid(read_cache_file(get_cache_file_path(k)), max_age, now)
              = ReferenceValid(written[k].ttl, Age(k), max_age)
FailedWrite(op) == op.op = "set" /\ op.fault[1] \in {"open", "dump"}

\* C12 as stated: after a set(k, v, ttl) whose durable write fails the memory tier
\* holds the new entry, an immediate get(k) returns v, and the durable tier is
\* left as it was.
C12_Original ==
    [][/\ FailedWrite(lastOp')
          => /\ lastOp'.key \in DOMAIN memory_cache'
             /\ memory_cache'[lastOp'.key]
                  = cache_entry(now, lastOp'.data, lastOp'.ttl)
             /\ cache_dir' = cache_dir
       /\ (FailedWrite(lastOp) /\ lastOp'.op = "get" /\ lastOp'.key = lastOp.key
             /\ lastOp'.max_age = None)
          => result' = <<lastOp.data>>]_vars

\* C12 amended: the durable tier is left as it was, except that the record of k
\* is left truncated when the write fails after the file was opened.
C12_MemoryWriteSurvives ==
    [][/\ FailedWrite(lastOp')
          => /\ lastOp'.key \in DOMAIN memory_cache'
             /\ memory_cache'[lastOp'.key]
                  = cache_entry(now, lastOp'.data, lastOp'.ttl)
             /\ \/ cache_dir' = cache_dir
                \/ cache_dir' = Put(cache_dir, get_cache_file_path(lastOp'.key),
                                    Truncated)
       /\ (FailedWrite(lastOp) /\ lastOp'.op = "get" /\ lastOp'.key = lastOp.key
             /\ lastOp'.max_age = None)
          => result' = <<lastOp.data>>]_vars

\* a get directly after a set of "x2" whose write failed returned "x2" while
\* the durable record still holds the older "x1"
C12_Witness ==
    /\ IsGet /\ lastOp.imm /\ lastOp.max_age = None
    /\ nfaults = 1
    /\ result = <<"x2">>
    /\ memory_cache[lastOp.key].data = "x2"
    /\ get_cache_file_path(lastOp.key) \in DOMAIN cache_dir
    /\ parseable(cache_dir[get_cache_file_path(lastOp.key)])
    /\ read_cache_file(get_cache_file_path(lastOp.key)).data = "x1"
    /\ "timestamp" \in DOMAIN read_cache_file(get_cache_file_path(lastOp.key))
\* C13: set(k, v2, ttl2) on a key that already has an entry replaces it in both
\* tiers: the memory entry and the durable record of k carry the new timestamp,
\* the new ttl and v2, and every later get(k, max_age) that returns a payload
\* returns the one of the latest set.
C13_SetReplaces ==
    /\ (lastOp.op = "set" /\ (~lastOp.cold \/ lastOp.tier = "disk"))
       => LET entry == cache_entry(now, lastOp.data, lastOp.ttl)
              cache_file == get_cache_file_path(lastOp.key)
          IN /\ lastOp.key \in DOMAIN memory_cache
             /\ memory_cache[lastOp.key] = entry
             /\ cache_file \in DOMAIN cache_dir
             /\ read_cache_file(cache_file) = entry
    /\ (IsGet /\ result # None)
       => /\ lastOp.key \in DOMAIN written
          /\ result = Stored(lastOp.key)

\* a set with a ttl, after the clock moved, on a key that was in both tiers
C13_Witness ==
    /\ lastOp.op = "set" /\ ~lastOp.cold /\ lastOp.tier = "disk"
    /\ lastOp.data = "x2" /\ lastOp.ttl = <<1>> /\ now = 1
    /\ memory_cache[lastOp.key].timestamp = isoformat(1)

\* the entries of every key but k
Others(f, k, name(_)) == [j \in {x \in Keys \ {k} : name(x) \in DOMAIN f} |-> f[name(j)]]
SameKey(j) == j

\* C16: invalidate(k) leaves the memory entry and the durable record of every
\* other key unchanged, also when k is absent from one or both tiers or the
\* unlink fails, and returns normally.
C16_InvalidateOnlyK ==
    [][lastOp'.op = "invalidate"
         => /\ Others(memory_cache', lastOp'.key, SameKey)
                 = Others(memory_cache, lastOp'.key, SameKey)
            /\ Others(cache_dir', lastOp'.key, get_cache_file_path)
                 = Others(cache_dir, lastOp'.key, get_cache_file_path)
            /\ lastOp'.key \notin DOMAIN memory_cache'
            /\ lastOp'.fault = NoFault
                 => get_cache_file_path(lastOp'.key) \notin DOMAIN cache_dir'
            /\ ~lastOp'.raised]_vars

\* invalidate of a key that was in memory but had no file, next to another key
\* that is in both tiers
C16_Witness ==
    /\ lastOp.op = "invalidate" /\ ~lastOp.cold /\ lastOp.tier = "miss"
    /\ \E j \in Keys \ {lastOp.key} :
          /\ j \in DOMAIN memory_cache
          /\ get_cache_file_path(j) \in DOMAIN cache_dir

Usable(entry, max_age) ==
    /\ ~validity_raises(entry, max_age)
    /\ is_cache_valid(entry, max_age, now)

\* C18: get(k, max_age) returns the payload of a valid memory entry without
\* reading the durable tier; when k is not in memory or its memory entry is not
\* valid and the durable record is readable and valid, it overwrites the memory
\* entry of k with the durable entry and returns the durable payload; otherwise
\* it returns absent.
C18_GetTierOrder ==
    [][lastOp'.op = "get"
         => LET k == lastOp'.key
                max_age == lastOp'.max_age
                cache_file == get_cache_file_path(k)
            IN
            IF k \in DOMAIN memory_cache /\ Usable(memory_cache[k], max_age)
            THEN /\ result' = <<memory_cache[k].data>>
                 /\ memory_cache' = memory_cache
            ELSE IF /\ cache_file \in DOMAIN cache_dir
                    /\ ~read_fails(cache_file, lastOp'.fault)
                    /\ Usable(read_cache_file(cache_file), max_age)
            THEN /\ result' = <<read_cache_file(cache_file).data>>
                 /\ memory_cache' = Put(memory_cache, k, read_cache_file(cache_file))
            ELSE /\ result' = None
                 /\ memory_cache' = memory_cache]_vars

\* k was in memory with an entry that is not valid, and the get returned and
\* promoted the older payload of the durable record
C18_Witness ==
    /\ IsGet /\ ~lastOp.cold /\ lastOp.tier = "disk"
    /\ result = <<"x1">>
    /\ memory_cache[lastOp.key] = read_cache_file(get_cache_file_path(lastOp.key))
    /\ nfaults = 1

\* C19: get never changes the durable tier and never deletes a memory key; it
\* changes at most the memory entry of the requested key, to the durable record
\* it returns.  A get(k, max_age=M) that found the entry expired leaves it in
\* both tiers, and a get(k) without max_age after it returns the value.
C19_GetOnlyPromotes ==
    [][lastOp'.op = "get"
         => LET k == lastOp'.key
                cache_file == get_cache_file_path(k)
            IN
            /\ cache_dir' = cache_dir
            /\ DOMAIN memory_cache \subseteq DOMAIN memory_cache'
            /\ Others(memory_cache', k, SameKey) = Others(memory_cache, k, SameKey)
            /\ memory_cache' # memory_cache
                 => /\ cache_file \in DOMAIN cache_dir
                    /\ memory_cache'[k] = read_cache_file(cache_file)
                    /\ result' = <<memory_cache'[k].data>>
            /\ (/\ IsGet /\ lastOp.key = k /\ lastOp.max_age # None
                /\ result = None /\ Alive(k)
                /\ lastOp'.max_age = None)
                 => result' = Stored(k)]_vars

\* a get with max_age returned absent for an expired entry that is still in
\* both tiers
C19_Witness ==
    /\ IsGet /\ lastOp.max_age # None /\ lastOp.tier = "miss" /\ result = None
    /\ Alive(lastOp.key)
    /\ lastOp.key \in DOMAIN memory_cache
    /\ memory_cache[lastOp.key] = EntryOf(lastOp.key)
    /\ get_cache_file_path(lastOp.key) \in DOMAIN cache_dir
    /\ read_cache_file(get_cache_file_path(lastOp.key)) = EntryOf(lastOp.key)

\* C20: the durable sweep of cleanup(max_age=M) deletes every readable expired
\* record, whether or not its key is in memory and whatever other records are
\* unreadable or malformed, and leaves every other record in place.
C20_DurableSweepComplete ==
    [][(/\ lastOp'.op = "cleanup" /\ Truthy(lastOp'.max_age)
        /\ lastOp'.fault[1] # "unlink")
         => cache_dir' = Remove(cache_dir,
                                expired_files(lastOp'.max_age, lastOp'.fault))]_vars
\* no call is in progress
Quiescent == \A t \in Threads : At(t, "idle")

\* C14: whenever no operation is in progress, every key of the memory tier has
\* a durable record holding the identical entry, for any interleaving of calls
\* by several threads (no file was damaged from outside).
C14_QuiescentTiersAgree ==
    (Quiescent /\ nfaults = 0)
      => \A k \in DOMAIN memory_cache :
            /\ get_cache_file_path(k) \in DOMAIN cache_dir
            /\ read_cache_file(get_cache_file_path(k)) = memory_cache[k]

\* the positions of a thread inside a `with self._lock` block
LockedPcs == {"set_memory", "get_memory", "get_promote", "invalidate_memory",
              "clear_memory", "cleanup_memory"}
InLocked(t) == frames[t].pc \in LockedPcs

\* C15: a thread is inside a memory access exactly while it holds the lock, so
\* at most one thread is; the memory index changes only in a step of the lock
\* holder; and a thread outside the locked blocks (between calls, at the file
\* operations, in the except block after the validity check raised under the
\* lock) does not hold the lock.
C15_LockDiscipline ==
    /\ [](/\ \A t \in Threads : InLocked(t) <=> lock = <<t>>
          /\ Cardinality({t \in Threads : InLocked(t)}) <= 1)
    /\ [][memory_cache' # memory_cache
            => \/ \E t \in Threads :
                    /\ lock = <<t>> /\ InLocked(t)
                    /\ frames'[t] # frames[t]
                    /\ lock' = None
               \/ Quiescent /\ Quiescent']_vars

\* a thread's validity check raised inside the locked lookup; the thread is in
\* its except block and the other thread has taken the lock since
C15_Witness ==
    \E t \in Threads : \E u \in Threads \ {t} :
       /\ frames[t] = Except("locked")
       /\ lock = <<u>>
       /\ InLocked(u)
\* C21: once invalidate(k) has returned, every get(k) that overlapped it has
\* returned, and no set(k) started (or was still writing) after the invalidate
\* began, k is absent from the memory tier and from the durable tier.
C21_InvalidatedStaysAbsent ==
    \A k \in Keys :
       (Quiescent /\ "invalidate" \in removed[k])
         => /\ k \notin DOMAIN memory_cache
            /\ get_cache_file_path(k) \notin DOMAIN cache_dir
\* C22: the entry of k in memory and the record of k on disk carry the
\* timestamp and ttl (and payload) of the entry built by the most recent
\* set(k, ...), whatever gets ran since, including a get that promoted the
\* record into memory.
C22_ReadingKeepsTimestamp ==
    /\ \A k \in DOMAIN memory_cache :
          /\ k \in DOMAIN written
          /\ memory_cache[k] = EntryOf(k)
    /\ \A f \in DOMAIN cache_dir :
          /\ key_of(f) \in DOMAIN written
          /\ read_cache_file(f) = EntryOf(key_of(f))

\* a get promoted a record with a ttl into memory after the clock had moved on;
\* the memory entry carries the time of the set
C22_Witness ==
    /\ IsGet /\ lastOp.cold /\ lastOp.tier = "disk"
    /\ now > written[lastOp.key].at
    /\ Truthy(written[lastOp.key].ttl)
    /\ fromisoformat(memory_cache[lastOp.key].timestamp) = written[lastOp.key].at
    /\ fromisoformat(memory_cache[lastOp.key].timestamp) < now
====
